---- MODULE Spec2Model ----
(***************************************************************************)
(* SYSNet training pipeline: the train/validate loop, the two              *)
(* hyper-parameter tuners (sysnet/sources/train.py) and the orchestrator   *)
(* SYSNet (sysnet/init_sysnet.py).                                         *)
(*                                                                         *)
(* Numbers.  Losses and weights are floats in the program; here they are   *)
(* integers.  The network is a black box (DNN is not part of the sources   *)
(* at hand): it is a constant predictor whose single parameter tensor is   *)
(* the integer `w`, model(data) = w.  An optimizer step may move the       *)
(* parameter to any value of the data set's reachable set `wdom`.          *)
(* Regularisation strengths are integers in units of 1e-6 (MicroUnit).     *)
(***************************************************************************)
EXTENDS Integers, Sequences, FiniteSets, TLC

\* ---------------------------------------------------------------- bounds
MaxEpochs     == 12   \* nepochs of a direct train_val call, one batch per epoch
MaxEpochsMB   == 2    \* nepochs of a direct train_val call with several batches
MaxBatches    == 2    \* training batches per epoch
MaxTuneEpochs == 2    \* nepochs of a tuner trial on data with two reachable weights
MaxStructs    == 2    \* length of the candidate list handed to tune_model_structure
MaxPatience   == 3    \* patience of a stand-alone early-stopping monitor
MaxFeed       == 5    \* updates fed to a stand-alone early-stopping monitor
MaxParams     == 2    \* parameter tensors of a model handed to add_regularization
MaxWeight     == 1    \* largest absolute weight of such a model
MaxLoss       == 2    \* largest base loss handed to add_regularization

\* ------------------------------------------------------ program constants
BestValInit   == 1000000  \* best_val_loss = 1.0e6 # a very large number
Patience      == 10       \* EarlyStopping(patience=10, verbose=True)
TuneCap       == 10       \* assert nepochs < 10
NumL1         == 10       \* np.logspace(-6, 0, 10)
L1LogStart    == -6       \* np.logspace(-6, 0, 10)
L1LogStop     == 0        \* np.logspace(-6, 0, 10)
OrchTuneEpochs == 10      \* 10, #self.ns.nepochs
NumPartitions == 5        \* for partition in range(5)
MicroUnit     == 1000000  \* one unit of strength, in 1e-6
DefaultL1     == 1000     \* L1lambda=1.0e-3
DefaultL2     == 1        \* L2lambda=1.0e-6
T_0           == 10       \* CosineAnnealingWarmRestarts(optimizer, T_0=10,
T_mult        == 2        \*                             T_mult=2,
EtaMin        == 10       \* eta_min=1.0e-5   (run's default, in MicroUnit)
LrBest        == 1000     \* lr_best=1.0e-3   (run's default, in MicroUnit)

\* ------------------------------------------------------------ arithmetic
Abs(x) == IF x < 0 THEN -x ELSE x

RECURSIVE SeqSum(_)
SeqSum(s) == IF s = <<>> THEN 0 ELSE Head(s) + SeqSum(Tail(s))

\* Python's min() of a non-empty list.
SeqMin(s) == CHOOSE m \in {s[k] : k \in 1..Len(s)} : \A k \in 1..Len(s) : m <= s[k]

\* np.argmax in the place of np.argmin.
ArgMin_ArgMax(s) == CHOOSE k \in 1..Len(s) :
                 /\ \A j \in 1..Len(s) : s[k] >= s[j]
                 /\ \A j \in 1..(k-1) : s[j] < s[k]

\* np.argmin: the first index holding the minimum (1-based here).
ArgMin(s) == CHOOSE k \in 1..Len(s) :
                 /\ \A j \in 1..Len(s) : s[k] <= s[j]
                 /\ \A j \in 1..(k-1) : s[j] > s[k]

\* exp(x) rounded to the nearest integer, for the small inputs the data sets use.
ExpR(x) == CASE x <= 0 -> 1
             [] x = 1  -> 3
             [] x = 2  -> 7
             [] OTHER  -> 20

\* torch.nn.MSELoss / torch.nn.PoissonNLLLoss (log_input=True):
\* criterion(input, target) on a batch whose examples are all alike.
MSELoss(input, target)        == (input - target) * (input - target)
PoissonNLLLoss(input, target) == ExpR(input) - target * input
Criterion(kind, input, target) ==
    IF kind = "mse" THEN MSELoss(input, target) ELSE PoissonNLLLoss(input, target)

\* init_loss: the loss kinds the orchestrator accepts.
LossKinds == {"mse", "pll"}

\* ------------------------------------------------------- add_regularization
\* params: the model's parameter tensors (one integer each); params[1] is
\* model.fc[0].weight.  Strengths in MicroUnit; the product is truncated.
L1Reg(params) == Abs(params[1])
L2Reg(params) == SeqSum([k \in 1..Len(params) |-> Abs(params[k])])
\* add_regularization with the L1 penalty subtracted.
add_regularization_Subtracts(params, loss, L1norm, L2norm, L1lambda, L2lambda) ==
    LET l1 == IF L1norm THEN loss - (L1lambda * L1Reg(params)) \div MicroUnit ELSE loss
    IN  IF L2norm THEN l1 + (L2lambda * L2Reg(params)) \div MicroUnit ELSE l1

add_regularization(params, loss, L1norm, L2norm, L1lambda, L2lambda) ==
    LET l1 == IF L1norm THEN loss + (L1lambda * L1Reg(params)) \div MicroUnit ELSE loss
    IN  IF L2norm THEN l1 + (L2lambda * L2Reg(params)) \div MicroUnit ELSE l1

\* ------------------------------------------------------------ call binding
\* Python binds npos positional arguments to the first npos parameters and the
\* keyword arguments by name; a parameter without default left unbound, a
\* parameter bound twice or an unknown keyword raises TypeError before the
\* body runs.  req: the parameters without default, in order; opt: those with.
Binds(req, opt, npos, kws) ==
    /\ npos <= Len(req) + Cardinality(opt)
    /\ \A k \in 1..Len(req) : (k <= npos) # (req[k] \in kws)
    /\ kws \subseteq ({req[k] : k \in 1..Len(req)} \cup opt)

SigTrainVal == [req |-> <<"model", "dataloaders", "datasets_len", "criterion",
                          "optimizer", "nepochs", "device">>,
                opt |-> {"output_path", "scheduler", "L1lambda", "L2lambda",
                         "L1norm", "L2norm"}]
SigEvaluate == [req |-> <<"model", "dataloaders", "datasets_len", "criterion", "device">>,
                opt |-> {"phase"}]
SigTuneL1   == [req |-> <<"model", "dataloaders", "datasets_len", "criterion",
                          "optimizer", "nepochs", "device">>,
                opt |-> {}]
SigTuneStructure == [req |-> <<"DNN", "dataloaders", "datasets_len", "criterion",
                               "nepochs", "device", "structures", "adamw_kw">>,
                     opt |-> {}]

VARIABLES
    inp,     \* the inputs of the call under study (fixed by Init)
    model,   \* the live model: [w, gen, structure]
    opt,     \* the optimizer: [fresh, m_gen, owner]
    tv,      \* the frame of the running train_val call
    es,      \* the EarlyStopping monitor
    fed,     \* the losses fed to a stand-alone monitor so far
    tn,      \* the frame of the running tuner call
    orch,    \* the SYSNet object and the position of SYSNet.run
    disk,    \* the files written so far
    reg      \* the frame of a direct add_regularization call

vars == <<inp, model, opt, tv, es, fed, tn, orch, disk, reg>>


\* ------------------------------------------- add_regularization, called
\* The frame of a direct call: loss is the caller's loss object as it stands,
\* params the model's parameters as they stand, ret the value returned and
\* ret_is_arg whether the object returned is the object passed in.
RegIdle == [pc |-> "idle", loss |-> 0, params |-> <<>>, ret |-> 0, ret_is_arg |-> FALSE]

\* Lines 14-30 on the caller's objects.  `loss += x` on a torch tensor adds in
\* place, so the tensor passed in holds the sum afterwards and is the object
\* returned; on a Python float it rebinds the local name to a new tensor.  With
\* both flags off the argument itself is returned.  The norms only read the
\* parameters (l2_reg += W.norm(2) adds into the first norm, a new tensor).
CallAddRegularization ==
    /\ inp.kind = "add_regularization"
    /\ reg.pc = "idle"
    /\ LET ret == add_regularization(inp.params, inp.loss, inp.L1norm, inp.L2norm,
                                     inp.L1lambda, inp.L2lambda)
           added == inp.L1norm \/ inp.L2norm
       IN  reg' = [pc |-> "returned",
                   loss |-> IF inp.is_tensor /\ added THEN ret ELSE inp.loss,
                   params |-> inp.params,
                   ret |-> ret,
                   ret_is_arg |-> inp.is_tensor \/ ~added]
    /\ UNCHANGED <<inp, model, opt, tv, es, fed, tn, orch, disk>>

\* ------------------------------------------------------------------ files
\* torch.save / np.savez / json.dump / savefig: a write replaces the file.
\* A path: its directory ("out" exists, "missing" does not, "" is a bare file
\* name, which lies in the working directory), the partition
\* suffix (_%d, -1 for none) and the extension that replaces '.pt'.
Path(dir, part, ext) == [given |-> TRUE, dir |-> dir, part |-> part, ext |-> ext]
NoPath == [given |-> FALSE, dir |-> "", part |-> -1, ext |-> ""]
\* output_path.replace('.pt', ext)
Replace(path, ext) == [path EXCEPT !.ext = ext]
\* os.path.dirname(output_path): "" for a bare file name such as 'model.pt'.
DirName(path) == path.dir
\* os.path.exists(p): of the directories used here only "out" exists, and
\* os.path.exists("") is False.
PathExists(p) == p = "out"
\* os.path.exists(os.path.dirname(output_path))
DirExists(path) == PathExists(DirName(path))
WriteFile(d, path, content) ==
    {f \in d : f.path # path} \cup {[path |-> path, content |-> content]}
HasFile(d, path) == \E f \in d : f.path = path

\* --------------------------------------------------------- EarlyStopping
\* sysnet/sources/callbacks.py is not among the sources; the monitor is
\* written from its description: best-seen loss initially +infinity
\* (has_best = FALSE), a counter of consecutive non-improving updates, and a
\* terminal flag that is set once the counter reaches the patience.
EarlyStopping(patience) ==
    [patience |-> patience, has_best |-> FALSE, best |-> 0,
     counter |-> 0, early_stop |-> FALSE]

ESImproves(e, val_loss) == ~e.has_best \/ val_loss < e.best

ESUpdate(e, val_loss) ==
    IF ESImproves(e, val_loss)
    THEN [e EXCEPT !.has_best = TRUE, !.best = val_loss, !.counter = 0]
    ELSE [e EXCEPT !.counter = @ + 1,
                   !.early_stop = @ \/ (e.counter + 1 >= e.patience)]

\* -------------------------------------------------------------- the model
\* DNN(*structure): a freshly built network; its parameters are initialised
\* at random, here to any reachable weight.
NoModel == [w |-> 0, gen |-> 0, structure |-> 0]
\* AdamW(params=model.parameters(), ...): no moment estimates yet.
AdamW(m) == [fresh |-> TRUE, m_gen |-> m.gen, owner |-> m.gen]
NoOpt == [fresh |-> TRUE, m_gen |-> 0, owner |-> 0]
\* optimizer.step(): the first step starts the moment estimates on the weights
\* of the model generation it is taken on; later steps keep accumulating.
OptStep(o, m) == IF o.fresh THEN [o EXCEPT !.fresh = FALSE, !.m_gen = m.gen] ELSE o

\* ---------------------------------------------------------------- train_val
\* What a call has done so far, in order, each entry with the epoch it
\* happened in: scheduler.step (with the i and num_iter of its argument
\* epoch+i/num_iter), optimizer.step (with the index b of the batch), the
\* validation pass and the monitor's update (with the loss), torch.save.
Ev(ev, epoch, i, n, val) == [ev |-> ev, epoch |-> epoch, i |-> i, n |-> n, val |-> val]

TVIdle ==
    [pc |-> "idle", caller |-> "none", nepochs |-> 0, output_path |-> NoPath,
     scheduler |-> FALSE, L1lambda |-> DefaultL1, L2lambda |-> DefaultL2,
     L1norm |-> FALSE, L2norm |-> FALSE,
     epoch |-> 0, b |-> 0, i |-> 0, running_train_loss |-> 0,
     train_losses |-> <<>>, valid_losses |-> <<>>,
     best_model_wts |-> 0, best_val_loss |-> 0, loss_valid_epoch |-> 0,
     sched_n |-> 0, sched_last |-> 0, log |-> <<>>]

\* The arguments of a call; L1lambda .. L2norm default as in the signature.
TVArgs(nepochs, output_path, scheduler, L1lambda, L1norm, L2norm) ==
    [nepochs |-> nepochs, output_path |-> output_path, scheduler |-> scheduler,
     L1lambda |-> L1lambda, L2lambda |-> DefaultL2, L1norm |-> L1norm, L2norm |-> L2norm]

\* for epoch in range(nepochs): the position after the loop head.
TVLoopHead(f, epoch) ==
    IF epoch < f.nepochs
    THEN [f EXCEPT !.pc = "train", !.epoch = epoch, !.running_train_loss = 0,
                   !.b = 0, !.i = 0]
    ELSE [f EXCEPT !.pc = "exit"]

\* Lines 147-164: the directory check, the placeholders, the first copy of the
\* weights, the sentinel, and the first loop head.
TVEnter(a, caller, m) ==
    IF a.output_path.given /\ ~DirExists(a.output_path)
    THEN [TVIdle EXCEPT !.pc = "raised", !.caller = caller,
                        !.nepochs = a.nepochs, !.output_path = a.output_path]
    ELSE TVLoopHead(
           [TVIdle EXCEPT !.caller = caller, !.nepochs = a.nepochs,
                          !.output_path = a.output_path, !.scheduler = a.scheduler,
                          !.L1lambda = a.L1lambda, !.L2lambda = a.L2lambda,
                          !.L1norm = a.L1norm, !.L2norm = a.L2norm,
                          !.best_model_wts = IF a.output_path.given THEN m.w ELSE 0,
                          !.best_val_loss = BestValInit], 0)

\* A direct call of train_val with the inputs of Init.
CallTrainVal ==
    /\ inp.kind = "train_val"
    /\ tv.pc = "idle"
    /\ tv' = TVEnter(inp.args, "none", model)
    /\ es' = EarlyStopping(Patience)
    /\ UNCHANGED <<reg, inp, model, opt, fed, tn, orch, disk>>

\* TVTrainBatch stepping the scheduler once per epoch, on its first batch.
TVTrainBatch_SchedulerPerEpoch ==
    /\ tv.pc = "train"
    /\ LET num_iter == inp.dl.ntrain
           loss == add_regularization(<<model.w>>,
                       Criterion(inp.crit, model.w, inp.dl.ttrain),
                       tv.L1norm, tv.L2norm, tv.L1lambda, tv.L2lambda)
           running == tv.running_train_loss + loss * 1
           f1 == IF tv.scheduler /\ tv.b = 0
                 THEN [tv EXCEPT !.sched_last = tv.epoch * num_iter + tv.i,
                                 !.sched_n = @ + 1, !.i = @ + 1,
                                 !.log = Append(@, Ev("scheduler.step", tv.epoch, tv.i,
                                                      num_iter, 0))]
                 ELSE tv
           f2 == [f1 EXCEPT !.running_train_loss = running, !.b = @ + 1,
                            !.log = Append(@, Ev("optimizer.step", tv.epoch, tv.b,
                                                 num_iter, 0))]
       IN  /\ \E w2 \in inp.dl.wdom : model' = [model EXCEPT !.w = w2]
           /\ opt' = OptStep(opt, model)
           /\ tv' = IF tv.b + 1 < num_iter
                    THEN f2
                    ELSE [f2 EXCEPT !.pc = "valid",
                             !.train_losses = Append(@, running \div inp.dl.ntrain)]
    /\ UNCHANGED <<reg, inp, es, fed, tn, orch, disk>>

\* TVTrainBatch with best_model_wts = model.state_dict(), which shares the
\* live weights, in the place of the deep copy.
TVTrainBatch_SharesBest ==
    /\ tv.pc = "train"
    /\ LET num_iter == inp.dl.ntrain
           loss == add_regularization(<<model.w>>,
                       Criterion(inp.crit, model.w, inp.dl.ttrain),
                       tv.L1norm, tv.L2norm, tv.L1lambda, tv.L2lambda)
           running == tv.running_train_loss + loss * 1
           f1 == IF tv.scheduler
                 THEN [tv EXCEPT !.sched_last = tv.epoch * num_iter + tv.i,
                                 !.sched_n = @ + 1, !.i = @ + 1,
                                 !.log = Append(@, Ev("scheduler.step", tv.epoch, tv.i,
                                                      num_iter, 0))]
                 ELSE tv
           f2 == [f1 EXCEPT !.running_train_loss = running, !.b = @ + 1,
                            !.log = Append(@, Ev("optimizer.step", tv.epoch, tv.b,
                                                 num_iter, 0))]
       IN  /\ \E w2 \in inp.dl.wdom : model' = [model EXCEPT !.w = w2]
           /\ opt' = OptStep(opt, model)
           /\ tv' = IF tv.b + 1 < num_iter
                    THEN [f2 EXCEPT !.best_model_wts =
                                       IF tv.output_path.given THEN model'.w ELSE @]
                    ELSE [f2 EXCEPT !.pc = "valid",
                             !.best_model_wts =
                                 IF tv.output_path.given THEN model'.w ELSE @,
                             !.train_losses = Append(@, running \div inp.dl.ntrain)]
    /\ UNCHANGED <<reg, inp, es, fed, tn, orch, disk>>

\* Lines 174-201: one training batch; after the last one the epoch's training
\* loss is recorded.
TVTrainBatch ==
    /\ tv.pc = "train"
    /\ LET num_iter == inp.dl.ntrain
           loss == add_regularization(<<model.w>>,
                       Criterion(inp.crit, model.w, inp.dl.ttrain),
                       tv.L1norm, tv.L2norm, tv.L1lambda, tv.L2lambda)
           running == tv.running_train_loss + loss * 1
           f1 == IF tv.scheduler
                 THEN [tv EXCEPT !.sched_last = tv.epoch * num_iter + tv.i,
                                 !.sched_n = @ + 1, !.i = @ + 1,
                                 !.log = Append(@, Ev("scheduler.step", tv.epoch, tv.i,
                                                      num_iter, 0))]
                 ELSE tv
           f2 == [f1 EXCEPT !.running_train_loss = running, !.b = @ + 1,
                            !.log = Append(@, Ev("optimizer.step", tv.epoch, tv.b,
                                                 num_iter, 0))]
       IN  /\ \E w2 \in inp.dl.wdom : model' = [model EXCEPT !.w = w2]
           /\ opt' = OptStep(opt, model)
           /\ tv' = IF tv.b + 1 < num_iter
                    THEN f2
                    ELSE [f2 EXCEPT !.pc = "valid",
                             !.train_losses = Append(@, running \div inp.dl.ntrain)]
    /\ UNCHANGED <<reg, inp, es, fed, tn, orch, disk>>

\* Lines 203-218: the validation pass and the best-so-far bookkeeping.
TVValid ==
    /\ tv.pc = "valid"
    /\ LET running_valid_loss == Criterion(inp.crit, model.w, inp.dl.tvalid) * 1
           loss_valid_epoch == running_valid_loss \div 1
           better == loss_valid_epoch < tv.best_val_loss
       IN  tv' = [tv EXCEPT !.pc = "estop",
                     !.log = Append(@, Ev("valid", tv.epoch, 0, 0, loss_valid_epoch)),
                     !.loss_valid_epoch = loss_valid_epoch,
                     !.valid_losses = Append(@, loss_valid_epoch),
                     !.best_val_loss = IF better THEN loss_valid_epoch ELSE @,
                     !.best_model_wts = IF better /\ tv.output_path.given
                                        THEN model.w ELSE @]
    /\ UNCHANGED <<reg, inp, model, opt, es, fed, tn, orch, disk>>

\* TVEarlyStop handing the monitor the epoch's training loss.
TVEarlyStop_FeedsTrainLoss ==
    /\ tv.pc = "estop"
    /\ es' = ESUpdate(es, tv.train_losses[Len(tv.train_losses)])
    /\ LET f == [tv EXCEPT !.log = Append(@, Ev("early_stopping", tv.epoch, 0, 0,
                                                tv.train_losses[Len(tv.train_losses)]))]
       IN  tv' = IF es'.early_stop
                 THEN [f EXCEPT !.pc = "exit"]
                 ELSE TVLoopHead(f, tv.epoch + 1)
    /\ UNCHANGED <<reg, inp, model, opt, fed, tn, orch, disk>>

\* TVEarlyStop leaving the loop as soon as one epoch fails to improve.
TVEarlyStop_BreakOnCounter ==
    /\ tv.pc = "estop"
    /\ es' = ESUpdate(es, tv.loss_valid_epoch)
    /\ LET f == [tv EXCEPT !.log = Append(@, Ev("early_stopping", tv.epoch, 0, 0,
                                                tv.loss_valid_epoch))]
       IN  tv' = IF es'.counter > 0
                 THEN [f EXCEPT !.pc = "exit"]
                 ELSE TVLoopHead(f, tv.epoch + 1)
    /\ UNCHANGED <<reg, inp, model, opt, fed, tn, orch, disk>>

\* TVEarlyStop returning from inside the loop when the monitor is terminal,
\* past the torch.save that follows the loop.
TVEarlyStop_ReturnsAtOnce ==
    /\ tv.pc = "estop"
    /\ es' = ESUpdate(es, tv.loss_valid_epoch)
    /\ LET f == [tv EXCEPT !.log = Append(@, Ev("early_stopping", tv.epoch, 0, 0,
                                                tv.loss_valid_epoch))]
       IN  tv' = IF es'.early_stop
                 THEN [f EXCEPT !.pc = "returned"]
                 ELSE TVLoopHead(f, tv.epoch + 1)
    /\ UNCHANGED <<reg, inp, model, opt, fed, tn, orch, disk>>

\* Lines 225-229 and the next loop head.
TVEarlyStop ==
    /\ tv.pc = "estop"
    /\ es' = ESUpdate(es, tv.loss_valid_epoch)
    /\ LET f == [tv EXCEPT !.log = Append(@, Ev("early_stopping", tv.epoch, 0, 0,
                                                tv.loss_valid_epoch))]
       IN  tv' = IF es'.early_stop
                 THEN [f EXCEPT !.pc = "exit"]
                 ELSE TVLoopHead(f, tv.epoch + 1)
    /\ UNCHANGED <<reg, inp, model, opt, fed, tn, orch, disk>>

\* Lines 231-234: persist the best weights and return.
TVExit ==
    /\ tv.pc = "exit"
    /\ disk' = IF tv.output_path.given
               THEN WriteFile(disk, tv.output_path, tv.best_model_wts)
               ELSE disk
    /\ tv' = [tv EXCEPT !.pc = "returned",
                        !.log = IF tv.output_path.given
                                THEN Append(@, Ev("torch.save", tv.epoch, 0, 0, 0))
                                ELSE @]
    /\ UNCHANGED <<reg, inp, model, opt, es, fed, tn, orch>>

\* evaluate (lines 237-251) on a model holding the weights w.
evaluate(crit, w, dl, phase) ==
    LET target == IF phase = "valid" THEN dl.tvalid ELSE dl.ttest
        loss == Criterion(crit, target, w) * 1
    IN  loss \div 1


\* ----------------------------------------------------------------- tuners
RECURSIVE Pow10(_)
Pow10(n) == IF n <= 0 THEN 1 ELSE 10 * Pow10(n - 1)

\* 10 ** (e3 / 3), e3 >= 0, truncated: 10 ** (1/3) = 2.154, 10 ** (2/3) = 4.642.
Pow10Thirds(e3) ==
    (Pow10(e3 \div 3) * (CASE e3 % 3 = 0 -> 1000 [] e3 % 3 = 1 -> 2154 [] OTHER -> 4642))
        \div 1000

\* np.logspace(start, stop, num), in MicroUnit: the k-th of num strengths is
\* 10 ** (start + (k-1) * (stop-start) / (num-1)).
LogSpace(start, stop, num) ==
    [k \in 1..num |->
        Pow10Thirds(3 * (start + 6) + ((k - 1) * 3 * (stop - start)) \div (num - 1))]

l1_lambdas == LogSpace(L1LogStart, L1LogStop, NumL1)

\* The candidate structures, by their first entry: (3, 20, 18, 1), (4, 20, 18, 1), ...
Structures == {3, 4, 5}

TNIdle ==
    [pc |-> "idle", kind |-> "none", nepochs |-> 0, cand |-> <<>>, idx |-> 0,
     history |-> <<>>, result |-> 0, err |-> "none", trials |-> <<>>]

\* assert nepochs < 10, 'max nepochs for hyper parameter tunning: 10'
TuneGuard_Inclusive(nepochs) == nepochs <= TuneCap
\* The tuner without its assert.
TuneGuard_Absent(nepochs) == TRUE
TuneGuard(nepochs) == nepochs < TuneCap

\* The head of `for ... in candidates`, and after the loop the selection:
\* candidates[np.argmin(history['best_val_losses'])]; np.argmin of an empty
\* list raises ValueError.
TNLoopHead(f) ==
    IF f.idx <= Len(f.cand)
    THEN [f EXCEPT !.pc = "loop"]
    ELSE IF f.history = <<>>
         THEN [f EXCEPT !.pc = "raised", !.err = "ValueError"]
         ELSE [f EXCEPT !.pc = "returned", !.result = f.cand[ArgMin(f.history)]]

\* Lines 45-50 and 82-86: the guard, then the history.
TNEnter(kind, nepochs, cand) ==
    IF ~TuneGuard(nepochs)
    THEN [TNIdle EXCEPT !.pc = "raised", !.kind = kind, !.nepochs = nepochs,
                        !.err = "AssertionError"]
    ELSE TNLoopHead([TNIdle EXCEPT !.kind = kind, !.nepochs = nepochs,
                                   !.cand = cand, !.idx = 1])

\* What a trial starts on, kept for the record: the candidate, the model
\* generation and the state of the optimizer handed to train_val.
Trial(c, m, o) ==
    [cand |-> c, gen |-> m.gen, opt_fresh |-> o.fresh, opt_owner |-> o.owner]

\* A direct call of tune_L1 on the model and optimizer of Init.
CallTuneL1 ==
    /\ inp.kind = "tune_L1"
    /\ tn.pc = "idle"
    /\ tn' = TNEnter("tune_L1", inp.args.nepochs, l1_lambdas)
    /\ UNCHANGED <<reg, inp, model, opt, tv, es, fed, orch, disk>>

\* TuneL1Trial with train_val going on with the monitor of the trial before,
\* as it would with a monitor built once outside train_val.
TuneL1Trial_KeepsMonitor ==
    /\ tn.pc = "loop" /\ tn.kind = "tune_L1"
    /\ \E w0 \in inp.dl.wdom : model' = [model EXCEPT !.w = w0, !.gen = @ + 1]
    /\ tv' = TVEnter(TVArgs(tn.nepochs, NoPath, FALSE, tn.cand[tn.idx], TRUE, FALSE),
                     "tune_L1", model')
    /\ tn' = [tn EXCEPT !.pc = "trial",
                        !.trials = Append(@, Trial(tn.cand[tn.idx], model', opt))]
    /\ UNCHANGED <<reg, inp, opt, es, fed, orch, disk>>

\* TuneL1Trial without model.apply(weight_reset).
TuneL1Trial_NoReset ==
    /\ tn.pc = "loop" /\ tn.kind = "tune_L1"
    /\ UNCHANGED model
    /\ tv' = TVEnter(TVArgs(tn.nepochs, NoPath, FALSE, tn.cand[tn.idx], TRUE, FALSE),
                     "tune_L1", model')
    /\ es' = EarlyStopping(Patience)
    /\ tn' = [tn EXCEPT !.pc = "trial",
                        !.trials = Append(@, Trial(tn.cand[tn.idx], model', opt))]
    /\ UNCHANGED <<reg, inp, opt, fed, orch, disk>>

\* Lines 51-66: reset the weights (model.apply(weight_reset) re-initialises
\* the Linear and BatchNorm1d layers) and call train_val with this strength;
\* the optimizer is the caller's, as it stands.
TuneL1Trial ==
    /\ tn.pc = "loop" /\ tn.kind = "tune_L1"
    /\ \E w0 \in inp.dl.wdom : model' = [model EXCEPT !.w = w0, !.gen = @ + 1]
    /\ tv' = TVEnter(TVArgs(tn.nepochs, NoPath, FALSE, tn.cand[tn.idx], TRUE, FALSE),
                     "tune_L1", model')
    /\ es' = EarlyStopping(Patience)
    /\ tn' = [tn EXCEPT !.pc = "trial",
                        !.trials = Append(@, Trial(tn.cand[tn.idx], model', opt))]
    /\ UNCHANGED <<reg, inp, opt, fed, orch, disk>>

\* A direct call of tune_model_structure with the candidate list of Init.
CallTuneStructure ==
    /\ inp.kind = "tune_model_structure"
    /\ tn.pc = "idle"
    /\ tn' = TNEnter("tune_model_structure", inp.args.nepochs, inp.structures)
    /\ UNCHANGED <<reg, inp, model, opt, tv, es, fed, orch, disk>>

\* Lines 87-104: a new model and a new optimizer for the candidate, then
\* train_val with the default regularisation arguments.
TuneStructureTrial ==
    /\ tn.pc = "loop" /\ tn.kind = "tune_model_structure"
    /\ \E w0 \in inp.dl.wdom :
          model' = [w |-> w0, gen |-> model.gen + 1, structure |-> tn.cand[tn.idx]]
    /\ opt' = AdamW(model')
    /\ tv' = TVEnter(TVArgs(tn.nepochs, NoPath, FALSE, DefaultL1, FALSE, FALSE),
                     "tune_model_structure", model')
    /\ es' = EarlyStopping(Patience)
    /\ tn' = [tn EXCEPT !.pc = "trial",
                        !.trials = Append(@, Trial(tn.cand[tn.idx], model', opt'))]
    /\ UNCHANGED <<reg, inp, fed, orch, disk>>

\* Lines 68 and 106: train_val has returned; record its best_val_loss and go
\* to the next candidate, or select (lines 70-71 and 108-109).
TuneRecord ==
    /\ tn.pc = "trial"
    /\ tv.pc = "returned"
    /\ tn' = TNLoopHead([tn EXCEPT !.history = Append(@, tv.best_val_loss),
                                   !.idx = @ + 1])
    /\ tv' = TVIdle
    /\ UNCHANGED <<reg, inp, model, opt, es, fed, orch, disk>>

\* ----------------------------------------------------- stand-alone monitor
\* One update of a monitor built with any patience: early_stopping(val_loss).
ESFeed ==
    /\ inp.kind = "monitor"
    /\ Len(fed) < MaxFeed
    /\ \E v \in 0..(MaxFeed - 1) :
          /\ es' = ESUpdate(es, v)
          /\ fed' = Append(fed, v)
    /\ UNCHANGED <<reg, inp, model, opt, tv, tn, orch, disk>>

\* ------------------------------------------------- the scheduler of __train
\* CosineAnnealingWarmRestarts(optimizer, T_0=10, T_mult=2, eta_min) as
\* train_val steps it, with the argument epoch + i/n held as v = epoch * n + i.
RECURSIVE PowT(_)
PowT(k) == IF k <= 0 THEN 1 ELSE T_mult * PowT(k - 1)

\* The epoch at which cycle k starts: T_0 * (T_mult^k - 1) / (T_mult - 1).
CycleStart(k) == (T_0 * (PowT(k) - 1)) \div (T_mult - 1)

\* The cycle the argument v/n lies in.
RECURSIVE CycleOf(_, _, _)
CycleOf(v, n, k) == IF v < CycleStart(k + 1) * n THEN k ELSE CycleOf(v, n, k + 1)

\* T_cur and T_i after step(v/n), both in units of 1/n epoch.
SchedTcur(v, n) == v - CycleStart(CycleOf(v, n, 0)) * n
SchedTi(v, n) == T_0 * PowT(CycleOf(v, n, 0)) * n

\* (1 + cos(pi * T_cur / T_i)) / 2 in thousandths, taken at the quarter of the
\* cycle the step lies in: 1 at the restart, then 0.854, 0.5, 0.146.
CosFactor(tcur, ti) ==
    IF tcur = 0 THEN 1000
    ELSE CASE (4 * tcur) \div ti = 0 -> 854
           [] (4 * tcur) \div ti = 1 -> 500
           [] OTHER                  -> 146

\* The learning rate after step(v/n):
\* eta_min + (base_lr - eta_min) * (1 + cos(pi * T_cur / T_i)) / 2.
SchedLr(v, n) ==
    EtaMin + ((LrBest - EtaMin) * CosFactor(SchedTcur(v, n), SchedTi(v, n))) \div 1000

\* ------------------------------------------------------------ orchestrator
\* The SYSNet object after __init__: the configuration ns, no data loader yet.
SYSNet(ns) ==
    [pc |-> "constructed", ns |-> ns, loaded |-> FALSE, partition |-> 0,
     output_path |-> Path("out", -1, ".pt"), stages |-> <<>>, err |-> "none",
     has_lr |-> FALSE, best_structure |-> 0, l1_alpha |-> 0,
     metrics |-> {}, pred |-> <<>>, hpix |-> <<>>]

OrchIdle == [SYSNet([do_rfe |-> FALSE, do_kfold |-> FALSE, find_lr |-> FALSE,
                     find_structure |-> FALSE, find_l1 |-> FALSE, nepochs |-> 0])
             EXCEPT !.pc = "none"]

\* Fail with the partition loop catching the exception and going on.
Fail_NextPartition(o, e) ==
    IF o.ns.do_kfold /\ o.partition < NumPartitions - 1
    THEN [o EXCEPT !.pc = "load_partition", !.partition = @ + 1, !.err = e]
    ELSE [o EXCEPT !.pc = "failed", !.err = e]

\* An exception raised below run(): nothing in run(), __run or the steps
\* catches it, so it ends the run where it stands.
Fail(o, e) == [o EXCEPT !.pc = "failed", !.err = e]
Enter(o, stage) == [o EXCEPT !.stages = Append(@, <<o.partition, stage>>)]
Entered(o, stage) == \E k \in 1..Len(o.stages) : o.stages[k][2] = stage

\* Lines 63-65: load().
OrchLoad ==
    /\ orch.pc = "constructed"
    /\ ~orch.loaded
    /\ orch' = [orch EXCEPT !.loaded = TRUE]
    /\ UNCHANGED <<reg, inp, model, opt, tv, es, fed, tn, disk>>

\* Lines 75-80 (and 142-162): run() starts; recursive feature elimination,
\* when asked for, reads self.ld, which exists only after load().
OrchRun ==
    /\ orch.pc = "constructed"
    /\ orch' = IF orch.ns.do_rfe
               THEN IF orch.loaded
                    THEN [Enter(orch, "rfe") EXCEPT !.pc = "load_partition"]
                    ELSE Fail(Enter(orch, "rfe"), "AttributeError")
               ELSE [orch EXCEPT !.pc = "load_partition"]
    /\ UNCHANGED <<reg, inp, model, opt, tv, es, fed, tn, disk>>

\* Lines 85-95 and 108-117: the partition's output path and its data; the
\* data loader is outside the sources and may fail on its input.
OrchLoadPartition ==
    /\ orch.pc = "load_partition"
    /\ LET o == [Enter(orch, "load_data") EXCEPT
                    !.output_path = IF orch.ns.do_kfold
                                    THEN Path("out", orch.partition, ".pt")
                                    ELSE @]
       IN  IF ~orch.loaded
           THEN orch' = Fail(o, "AttributeError")
           ELSE \E ok \in BOOLEAN :
                    orch' = IF ok THEN [o EXCEPT !.pc = "find_lr"] ELSE Fail(o, "IOError")
    /\ UNCHANGED <<reg, inp, model, opt, tv, es, fed, tn, disk>>

\* OrchFindLr going on with the pipeline after the sweep instead of sys.exit().
OrchFindLr_NoExit ==
    /\ orch.pc = "find_lr"
    /\ IF orch.ns.find_lr
       THEN /\ orch' = [Enter(orch, "find_lr") EXCEPT !.pc = "find_structure",
                                                     !.has_lr = TRUE]
            /\ disk' = WriteFile(disk, Replace(orch.output_path, "_lr.png"), 0)
       ELSE /\ orch' = [orch EXCEPT !.pc = "find_structure", !.has_lr = TRUE]
            /\ UNCHANGED disk
    /\ UNCHANGED <<reg, inp, model, opt, tv, es, fed, tn>>

\* Lines 179-217: the learning-rate sweep (LRFinder is outside the sources),
\* its figure, and sys.exit(); without the flag, lr_best, eta_min, adamw_kw.
OrchFindLr ==
    /\ orch.pc = "find_lr"
    /\ IF orch.ns.find_lr
       THEN /\ orch' = [Enter(orch, "find_lr") EXCEPT !.pc = "exited"]
            /\ disk' = WriteFile(disk, Replace(orch.output_path, "_lr.png"), 0)
       ELSE /\ orch' = [orch EXCEPT !.pc = "find_structure", !.has_lr = TRUE]
            /\ UNCHANGED disk
    /\ UNCHANGED <<reg, inp, model, opt, tv, es, fed, tn>>

\* Lines 219-239.  The call passes six positional arguments (src.DNN,
\* self.dataloaders, criterion, 10, self.device, structures) and adamw_kw.
OrchFindStructure ==
    /\ orch.pc = "find_structure"
    /\ LET o == Enter(orch, "find_structure")
           binds == Binds(SigTuneStructure.req, SigTuneStructure.opt, 6, {"adamw_kw"})
       IN  IF ~orch.ns.find_structure
           THEN /\ orch' = [orch EXCEPT !.pc = "find_l1", !.best_structure = 3]
                /\ UNCHANGED tn
           ELSE IF ~binds
           THEN /\ orch' = Fail(o, "TypeError")
                /\ UNCHANGED tn
           ELSE /\ tn' = TNEnter("tune_model_structure", OrchTuneEpochs, <<3, 4, 5>>)
                /\ orch' = IF tn'.pc = "raised" THEN Fail(o, tn'.err)
                                                ELSE [o EXCEPT !.pc = "tuning"]
    /\ UNCHANGED <<reg, inp, model, opt, tv, es, fed, disk>>

\* Lines 241-258.  A model and an optimizer are built, then tune_L1 is called
\* with six positional arguments (model, self.dataloaders, criterion,
\* optimizer, 10, self.device).
OrchFindL1 ==
    /\ orch.pc = "find_l1"
    /\ LET o == Enter(orch, "find_l1")
           binds == Binds(SigTuneL1.req, SigTuneL1.opt, 6, {})
       IN  IF ~orch.ns.find_l1
           THEN /\ orch' = [orch EXCEPT !.pc = "train", !.l1_alpha = DefaultL1]
                /\ UNCHANGED <<model, opt, tn>>
           ELSE /\ \E w0 \in inp.dl.wdom :
                      model' = [w |-> w0, gen |-> model.gen + 1,
                                structure |-> orch.best_structure]
                /\ opt' = AdamW(model')
                /\ IF ~binds
                   THEN /\ orch' = Fail(o, "TypeError")
                        /\ UNCHANGED tn
                   ELSE /\ tn' = TNEnter("tune_L1", OrchTuneEpochs, l1_lambdas)
                        /\ orch' = IF tn'.pc = "raised" THEN Fail(o, tn'.err)
                                                        ELSE [o EXCEPT !.pc = "tuning"]
    /\ UNCHANGED <<reg, inp, tv, es, fed, disk>>

\* The keyword arguments of the train_val call of lines 270-279 and of the
\* evaluate call of lines 306-310.
TrainCallKws == {"model", "dataloaders", "criterion", "optimizer", "nepochs",
                 "device", "output_path", "scheduler", "L1lambda", "L1norm"}
EvaluateCallKws == {"model", "dataloaders", "criterion", "device", "phase"}

\* Lines 260-279: the model, the optimizer and the scheduler are built and
\* train_val is called, by keyword only.
OrchTrain ==
    /\ orch.pc = "train"
    /\ LET o == Enter(orch, "train")
           binds == Binds(SigTrainVal.req, SigTrainVal.opt, 0, TrainCallKws)
       IN  /\ \E w0 \in inp.dl.wdom :
                 model' = [w |-> w0, gen |-> model.gen + 1,
                           structure |-> orch.best_structure]
           /\ opt' = AdamW(model')
           /\ IF ~binds
              THEN /\ orch' = Fail(o, "TypeError")
                   /\ UNCHANGED <<tv, es>>
              ELSE /\ tv' = TVEnter(TVArgs(orch.ns.nepochs, orch.output_path, TRUE,
                                           orch.l1_alpha, TRUE, FALSE), "orch", model')
                   /\ es' = EarlyStopping(Patience)
                   /\ orch' = IF tv'.pc = "raised" THEN Fail(o, "RuntimeError")
                                                   ELSE [o EXCEPT !.pc = "training"]
    /\ UNCHANGED <<reg, inp, fed, tn, disk>>

\* Lines 281-313, which no run reaches (OrchTrain never enters train_val): the
\* loss curves are written and evaluate is called, by keyword only; evaluate
\* returns one number, which `test_loss, hpix_pred = ...` cannot unpack.
OrchEvaluate ==
    /\ orch.pc = "training"
    /\ tv.pc = "returned"
    /\ disk' = WriteFile(WriteFile(disk, Replace(orch.output_path, "_loss.npz"), 0),
                         Replace(orch.output_path, "_loss.png"), 0)
    /\ orch' = Fail(Enter(orch, "evaluate"), "TypeError")
    /\ tv' = TVIdle
    /\ UNCHANGED <<reg, inp, model, opt, es, fed, tn>>

\* Lines 101-105 and 123-133, which no run reaches: the partition's
\* predictions and metrics are kept; after the last partition the metrics
\* report and the archive of pixel indices and predictions are written.
OrchCollect ==
    /\ orch.pc = "evaluated"
    /\ LET o == [orch EXCEPT
                    !.hpix = Append(@, 1), !.pred = Append(@, 1),
                    !.metrics = @ \cup {[partition |-> orch.partition,
                        keys |-> {"min_train_loss", "min_val_loss", "test_loss"}]}]
           last == ~orch.ns.do_kfold \/ orch.partition = NumPartitions - 1
           base == Path("out", -1, ".pt")
       IN  IF last
           THEN /\ orch' = [o EXCEPT !.pc = "done", !.output_path = base]
                /\ disk' = WriteFile(
                              WriteFile(disk, Replace(base, "_metrics.json"), o.metrics),
                              Replace(base, "_hpixngal.npz"),
                              [hpix |-> SeqSum(o.hpix), pred |-> SeqSum(o.pred)])
           ELSE /\ orch' = [o EXCEPT !.pc = "load_partition", !.partition = @ + 1]
                /\ UNCHANGED disk
    /\ UNCHANGED <<reg, inp, model, opt, tv, es, fed, tn>>

\* ----------------------------------------------------------------- inputs
\* A data set: ntrain training batches (one example each, target ttrain), one
\* validation example (target tvalid), one test example (target ttest), and
\* the weights training can reach.
DataSet(ntrain, ttrain, tvalid, wdom) ==
    [ntrain |-> ntrain, ttrain |-> ttrain, tvalid |-> tvalid, ttest |-> 1,
     wdom |-> wdom]

\* The loss kind with the targets it is run on: small losses, validation
\* losses at and above 1.0e6, and the Poisson loss.
Cases == { <<"mse", 0, 0>>, <<"mse", 0, 1001>>, <<"pll", 1, 1>> }

NoArgs == TVArgs(0, NoPath, FALSE, DefaultL1, FALSE, FALSE)

Input(kind, c, ntrain, wdom, args, structures) ==
    [kind |-> kind, crit |-> c[1], dl |-> DataSet(ntrain, c[2], c[3], wdom),
     args |-> args, structures |-> structures]

\* Long calls, one batch per epoch, and short calls over every argument.
InputsTVLong ==
    { Input("train_val", c, 1, {0, 1}, TVArgs(n, p, FALSE, DefaultL1, FALSE, FALSE), <<>>) :
        c \in Cases, n \in 0..MaxEpochs, p \in {Path("out", -1, ".pt")} }
InputsTVShort ==
    { Input("train_val", c, x[1], {0, 1},
            TVArgs(x[2], x[3], x[4], x[5], x[6], x[7]), <<>>) :
        c \in Cases,
        x \in (1..MaxBatches) \X (0..MaxEpochsMB) \X {NoPath, Path("out", -1, ".pt"), Path("missing", -1, ".pt"), Path("", -1, ".pt")}
              \X BOOLEAN \X {DefaultL1, MicroUnit} \X BOOLEAN \X BOOLEAN }


InputsTV == InputsTVLong \cup InputsTVShort

\* The caller has built the model and its optimizer.
InitTVOn(inputs) ==
    /\ inp \in inputs
    /\ \E w0 \in inp.dl.wdom : model = [w |-> w0, gen |-> 1, structure |-> 1]
    /\ opt = AdamW(model)
    /\ tv = TVIdle
    /\ es = EarlyStopping(Patience)
    /\ fed = <<>>
    /\ tn = TNIdle
    /\ orch = OrchIdle
    /\ disk = {}
    /\ reg = RegIdle

InitTV == InitTVOn(InputsTV)

NextTV == CallTrainVal \/ TVTrainBatch \/ TVValid \/ TVEarlyStop \/ TVExit

SpecTV == InitTV /\ [][NextTV]_vars


\* ------------------------------------------------- claims about train_val
TVReturned == tv.pc = "returned"

\* C1: whenever train_val has returned, train_losses and valid_losses have the
\* same length, that length is at most nepochs, and it is nepochs unless the
\* early-stopping monitor of the call is terminal.
Thm_C1 ==
    TVReturned =>
        /\ Len(tv.train_losses) = Len(tv.valid_losses)
        /\ Len(tv.valid_losses) <= tv.nepochs
        /\ (Len(tv.valid_losses) = tv.nepochs \/ es.early_stop)

\* A call stopped early: it returned fewer epochs than asked for.
Wit_C1 == TVReturned /\ es.early_stop /\ Len(tv.valid_losses) < tv.nepochs

\* C2: whenever train_val has returned after at least one epoch, best_val_loss
\* is the minimum of valid_losses.
CE_C2 ==
    (TVReturned /\ tv.valid_losses # <<>>) =>
        tv.best_val_loss = SeqMin(tv.valid_losses)

\* C3: whenever train_val has returned with an output_path after at least one
\* epoch, the weights stored at output_path, evaluated on the validation split
\* with the same criterion, give exactly best_val_loss.
CE_C3 ==
    (TVReturned /\ tv.output_path.given /\ tv.valid_losses # <<>>) =>
        \E f \in disk :
            /\ f.path = tv.output_path
            /\ evaluate(inp.crit, f.content, inp.dl, "valid") = tv.best_val_loss


\* The directory that holds the file of a path exists: "out", or the working
\* directory for a bare file name.
ContainingDirExists(path) == path.dir \in {"out", ""}

\* C12: a train_val call with an output_path whose containing directory does
\* not exist raises before anything else happens (no batch, no optimizer or
\* scheduler step, no file); with an output_path whose containing directory
\* exists it does not raise.
CE_C12 ==
    (inp.kind = "train_val" /\ inp.args.output_path.given) =>
        IF ContainingDirExists(inp.args.output_path)
        THEN tv.pc # "raised"
        ELSE /\ tv.pc \in {"idle", "raised"}
             /\ tv.train_losses = <<>> /\ tv.valid_losses = <<>>
             /\ opt.fresh /\ tv.sched_n = 0
             /\ disk = {}

\* ----------------------------------------------------------- tuner inputs
\* nepochs of a tuner call: a few epochs on data where training can reach two
\* weights, the largest accepted budget on data where it reaches one, and the
\* budgets the guard refuses.
TuneBudgets ==
    { <<n, {0, 1}>> : n \in 0..MaxTuneEpochs } \cup
    { <<n, {0}>> : n \in {TuneCap - 1, TuneCap, TuneCap + 1} }

\* All candidate lists of at most n structures.
RECURSIVE SeqsUpTo(_, _)
SeqsUpTo(S, n) ==
    IF n = 0 THEN {<<>>}
    ELSE LET shorter == SeqsUpTo(S, n - 1)
         IN  shorter \cup {Append(q, x) : q \in shorter, x \in S}

TuneArgs(n) == TVArgs(n, NoPath, FALSE, DefaultL1, FALSE, FALSE)

InputsTune ==
    { Input("tune_L1", c, 1, b[2], TuneArgs(b[1]), <<>>) :
        c \in Cases, b \in TuneBudgets }
    \cup
    { Input("tune_model_structure", c, 1, b[2], TuneArgs(b[1]), q) :
        c \in Cases, b \in TuneBudgets, q \in SeqsUpTo(Structures, MaxStructs) }

\* tune_L1 is handed a model and its optimizer; tune_model_structure builds its own.
InitTune ==
    /\ inp \in InputsTune
    /\ IF inp.kind = "tune_L1"
       THEN /\ \E w0 \in inp.dl.wdom : model = [w |-> w0, gen |-> 1, structure |-> 3]
            /\ opt = AdamW(model)
       ELSE /\ model = NoModel
            /\ opt = NoOpt
    /\ tv = TVIdle
    /\ es = EarlyStopping(Patience)
    /\ fed = <<>>
    /\ tn = TNIdle
    /\ orch = OrchIdle
    /\ disk = {}
    /\ reg = RegIdle

NextTune ==
    \/ CallTuneL1 \/ TuneL1Trial \/ CallTuneStructure \/ TuneStructureTrial
    \/ TuneRecord
    \/ TVTrainBatch \/ TVValid \/ TVEarlyStop \/ TVExit

SpecTune == InitTune /\ [][NextTune]_vars


\* ------------------------------------------ add_regularization inputs
\* Direct calls: a model of 1..MaxParams parameter tensors (the first is
\* fc[0].weight), a base loss held in a tensor or in a float, every flag
\* combination, and strengths 0, the train_val defaults and 1.0 and 2.0.
InputsReg ==
    { [kind |-> "add_regularization", params |-> q, loss |-> l, is_tensor |-> t,
       L1norm |-> f[1], L2norm |-> f[2], L1lambda |-> a, L2lambda |-> b] :
        q \in SeqsUpTo((-MaxWeight)..MaxWeight, MaxParams) \ {<<>>},
        l \in (-1)..MaxLoss, t \in BOOLEAN, f \in BOOLEAN \X BOOLEAN,
        a \in {0, DefaultL1, MicroUnit, 2 * MicroUnit},
        b \in {0, DefaultL2, MicroUnit} }

InitReg ==
    /\ inp \in InputsReg
    /\ model = NoModel
    /\ opt = NoOpt
    /\ tv = TVIdle
    /\ es = EarlyStopping(Patience)
    /\ fed = <<>>
    /\ tn = TNIdle
    /\ orch = OrchIdle
    /\ disk = {}
    /\ reg = RegIdle

NextReg == CallAddRegularization

SpecReg == InitReg /\ [][NextReg]_vars

RegReturned == inp.kind = "add_regularization" /\ reg.pc = "returned"

\* C13: for every flag combination and non-negative strengths, the loss
\* add_regularization returns is at least the base loss passed in, and it is
\* the base loss when both flags are off.
Thm_C13 ==
    RegReturned =>
        /\ reg.ret >= inp.loss
        /\ (~inp.L1norm /\ ~inp.L2norm) => reg.ret = inp.loss

\* Both penalties are on and each adds something.
Wit_C13 ==
    /\ RegReturned /\ inp.L1norm /\ inp.L2norm
    /\ inp.L1lambda = MicroUnit /\ inp.L2lambda = MicroUnit
    /\ Len(inp.params) = 2 /\ L1Reg(inp.params) > 0
    /\ reg.ret = inp.loss + L1Reg(inp.params) + L2Reg(inp.params)

\* C20: after add_regularization has returned, the caller's loss object holds
\* the value it was passed with, the parameters are as they were, and a
\* regularized loss is returned in an object of its own.
CE_C20 ==
    RegReturned =>
        /\ reg.loss = inp.loss
        /\ reg.params = inp.params
        /\ (inp.L1norm \/ inp.L2norm) => ~reg.ret_is_arg

\* ------------------------------------------------------- monitor inputs
InitES ==
    /\ inp = Input("monitor", <<"mse", 0, 0>>, 1, {0}, NoArgs, <<>>)
    /\ model = NoModel
    /\ opt = NoOpt
    /\ tv = TVIdle
    /\ \E p \in 1..MaxPatience : es = EarlyStopping(p)
    /\ fed = <<>>
    /\ tn = TNIdle
    /\ orch = OrchIdle
    /\ disk = {}
    /\ reg = RegIdle

\* The monitor alone, and the monitor as train_val drives it.
InitMon == InitES \/ InitTVOn(InputsTVLong)
NextMon == ESFeed \/ NextTV
SpecMon == InitMon /\ [][NextMon]_vars

\* --------------------------------------------------- orchestrator inputs
Configs ==
    [do_rfe : BOOLEAN, do_kfold : BOOLEAN, find_lr : BOOLEAN,
     find_structure : BOOLEAN, find_l1 : BOOLEAN, nepochs : {3, T_0 + 1}]

InitRun ==
    /\ inp \in {Input("run", c, 1, {0, 1}, NoArgs, <<>>) : c \in Cases}
    /\ model = NoModel
    /\ opt = NoOpt
    /\ tv = TVIdle
    /\ es = EarlyStopping(Patience)
    /\ fed = <<>>
    /\ tn = TNIdle
    /\ \E ns \in Configs : orch = SYSNet(ns)
    /\ disk = {}
    /\ reg = RegIdle

\* OrchEvaluate and OrchCollect are left out: no run reaches them.
NextRun ==
    \/ OrchLoad \/ OrchRun \/ OrchLoadPartition
    \/ OrchFindLr \/ OrchFindStructure \/ OrchFindL1 \/ OrchTrain

SpecRun == InitRun /\ [][NextRun]_vars


\* ------------------------------------------- claims about the monitor
\* The losses the monitor has been updated with: those fed to a stand-alone
\* monitor, or the validation losses of the epochs train_val has finished.
Fed ==
    IF inp.kind = "monitor" THEN fed
    ELSE IF tv.pc = "estop"
         THEN SubSeq(tv.valid_losses, 1, Len(tv.valid_losses) - 1)
         ELSE tv.valid_losses

\* Update t of s does not go below the best loss seen before it.
NonImproving(s, t) == t > 1 /\ s[t] >= SeqMin(SubSeq(s, 1, t - 1))

\* The number of consecutive non-improving updates that end at update k.
RunAt(s, k) ==
    LET last == CHOOSE t \in 1..k :
                    /\ ~NonImproving(s, t)
                    /\ \A u \in (t + 1)..k : NonImproving(s, u)
    IN  k - last

StrictlyDecreasing(s) == \A k \in 1..(Len(s) - 1) : s[k + 1] < s[k]

\* C4: the monitor is terminal exactly when some update so far brought the
\* count of consecutive non-improving updates to the patience; a strictly
\* decreasing sequence of losses never makes it terminal.
Thm_C4 ==
    /\ es.early_stop <=> \E k \in 1..Len(Fed) : RunAt(Fed, k) = es.patience
    /\ StrictlyDecreasing(Fed) => ~es.early_stop

\* The last update brought the count to a patience of at least 2, and the
\* monitor had improved more than once before.
Wit_C4 ==
    /\ inp.kind = "monitor" /\ es.patience >= 2 /\ es.early_stop
    /\ Len(fed) > es.patience + 1
    /\ RunAt(fed, Len(fed)) = es.patience
    /\ \A k \in 1..(Len(fed) - 1) : RunAt(fed, k) < es.patience

\* --------------------------------------------- claims about the tuners
IsTuner == inp.kind \in {"tune_L1", "tune_model_structure"}

\* C6: a tuner called with nepochs >= 10 raises AssertionError and nothing
\* else ever happens: no trial, no reset or construction of a model, no
\* train_val call, no optimizer step; with nepochs < 10 it does not raise
\* AssertionError.
Thm_C6 ==
    IsTuner =>
      /\ inp.args.nepochs >= 10 =>
            /\ tn.pc \in {"idle", "raised"}
            /\ tn.pc = "raised" => tn.err = "AssertionError"
            /\ tn.trials = <<>> /\ tn.history = <<>>
            /\ model.gen = (IF inp.kind = "tune_L1" THEN 1 ELSE 0)
            /\ opt.fresh
            /\ tv.pc = "idle"
      /\ inp.args.nepochs < 10 => tn.err # "AssertionError"

\* The guard has refused the smallest budget it refuses.
Wit_C6 == IsTuner /\ inp.args.nepochs = 10 /\ tn.pc = "raised"
          /\ tn.err = "AssertionError"

\* The first index of s holding its minimum.
IsFirstMin(s, k) == /\ \A j \in 1..Len(s) : s[k] <= s[j]
                    /\ \A j \in 1..(k - 1) : s[j] > s[k]

\* C9: tune_model_structure, on a non-empty list with nepochs < 10, returns;
\* it has then run one trial per candidate, in list order, each on a model
\* built for it and an optimizer built on that model and not yet stepped, and
\* the result is the candidate of the first trial whose recorded best
\* validation loss is the minimum.
Thm_C9 ==
    inp.kind = "tune_model_structure" =>
      /\ tn.pc = "raised" => (inp.args.nepochs >= 10 \/ inp.structures = <<>>)
      /\ tn.pc = "returned" =>
           /\ Len(tn.trials) = Len(inp.structures)
           /\ Len(tn.history) = Len(inp.structures)
           /\ \A k \in 1..Len(tn.trials) :
                /\ tn.trials[k].cand = inp.structures[k]
                /\ tn.trials[k].opt_fresh
                /\ tn.trials[k].opt_owner = tn.trials[k].gen
                /\ \A j \in 1..(k - 1) : tn.trials[j].gen # tn.trials[k].gen
           /\ \E k \in 1..Len(tn.history) :
                IsFirstMin(tn.history, k) /\ tn.result = inp.structures[k]

\* Two different candidates, the second with the smaller recorded loss.
Wit_C9 ==
    /\ inp.kind = "tune_model_structure" /\ tn.pc = "returned"
    /\ Len(inp.structures) = 2 /\ inp.structures[1] # inp.structures[2]
    /\ tn.history[2] < tn.history[1]
    /\ tn.result = inp.structures[2]

\* C10: tune_L1 with nepochs < 10 returns; it has then run exactly 10 trials,
\* on strengths that increase strictly from 1e-6 to 1, each after one more
\* reset of the model's weights, it holds one recorded loss per trial, and the
\* result is the strength of the first (so the smallest) trial whose recorded
\* loss is the minimum.
Thm_C10 ==
    inp.kind = "tune_L1" =>
      /\ tn.pc = "raised" => inp.args.nepochs >= 10
      /\ tn.pc = "returned" =>
           /\ Len(tn.trials) = 10
           /\ Len(tn.history) = 10
           /\ tn.trials[1].cand * 1000000 = MicroUnit
           /\ tn.trials[10].cand = MicroUnit
           /\ \A k \in 1..9 : tn.trials[k].cand < tn.trials[k + 1].cand
           /\ \A k \in 1..10 : tn.trials[k].gen = 1 + k
           /\ \E k \in 1..10 :
                IsFirstMin(tn.history, k) /\ tn.result = tn.trials[k].cand

\* The trials disagree and the selected strength is not the first one.
Wit_C10 ==
    /\ inp.kind = "tune_L1" /\ tn.pc = "returned"
    /\ tn.result > tn.trials[1].cand
    /\ \E k \in 1..10 : tn.history[k] > SeqMin(tn.history)

\* -------------------------------------- claims about the orchestrator
DiscoveryOff ==
    ~orch.ns.find_lr /\ ~orch.ns.find_structure /\ ~orch.ns.find_l1

\* C5: once the structure (resp. L1) discovery step has been taken with its
\* flag set, the tuner was called with an epoch budget its guard accepts and
\* the run has not failed.
CE_C5 ==
    \A st \in {"find_structure", "find_l1"} :
        (Entered(orch, st) /\ orch.pc # st) =>
            /\ TuneGuard(OrchTuneEpochs)
            /\ ~(orch.pc = "failed" /\ orch.stages[Len(orch.stages)][2] = st)

\* C7: a run with all discovery flags off, on loaded data the loader accepts,
\* that has ended has completed, and it has written a checkpoint and a metrics
\* entry with the three keys for each processed partition and an archive with
\* as many predictions as pixel indices.
CE_C7 ==
    (DiscoveryOff /\ orch.loaded /\ orch.pc \in {"done", "failed"}
        /\ orch.err # "IOError") =>
      /\ orch.pc = "done"
      /\ \A k \in 1..Len(orch.stages) :
           orch.stages[k][2] = "train" =>
             /\ HasFile(disk, Path("out", IF orch.ns.do_kfold THEN orch.stages[k][1] ELSE -1, ".pt"))
             /\ \E m \in orch.metrics :
                  /\ m.partition = orch.stages[k][1]
                  /\ m.keys = {"min_train_loss", "min_val_loss", "test_loss"}
      /\ \E f \in disk :
           /\ f.path = Path("out", -1, "_hpixngal.npz")
           /\ f.content.pred = f.content.hpix

\* C8: with the learning-rate flag set, only feature elimination, the first
\* partition's load and the sweep are ever entered; once the sweep is entered
\* the process has exited without error; and no checkpoint, metrics report or
\* archive is ever written.
Thm_C8 ==
    (inp.kind = "run" /\ orch.ns.find_lr) =>
      /\ \A k \in 1..Len(orch.stages) :
           /\ orch.stages[k][2] \in {"rfe", "load_data", "find_lr"}
           /\ orch.stages[k][1] = 0
      /\ Entered(orch, "find_lr") => (orch.pc = "exited" /\ orch.err = "none")
      /\ \A f \in disk : f.path.ext \notin {".pt", "_metrics.json", "_hpixngal.npz",
                                            "_loss.npz", "_loss.png"}
      /\ tv.pc = "idle" /\ tn.pc = "idle"

\* A five-fold run that exited after the sweep of partition 0.
Wit_C8 ==
    /\ orch.ns.find_lr /\ orch.ns.do_kfold /\ orch.pc = "exited"
    /\ orch.partition = 0
    /\ HasFile(disk, Path("out", 0, "_lr.png"))

\* The reports of a whole run: the metrics JSON and the prediction archive.
IsReport(f) == f.path.ext \in {"_metrics.json", "_hpixngal.npz"}

\* C11: in a five-fold run, an exception in the processing of partition k ends
\* the run there: the run is failed as soon as an error is recorded, no later
\* partition has been entered, no report of the run exists, and nothing
\* changes afterwards.
Thm_C11 ==
    /\ [](( inp.kind = "run" /\ orch.ns.do_kfold ) =>
            /\ orch.err # "none" => orch.pc = "failed"
            /\ orch.pc = "failed" =>
                 /\ \A k \in 1..Len(orch.stages) : orch.stages[k][1] <= orch.partition
                 /\ orch.stages[Len(orch.stages)][1] = orch.partition
                 /\ \A f \in disk : ~IsReport(f)
                 /\ orch.metrics = {})
    /\ [][orch.pc = "failed" => UNCHANGED <<orch, disk, model, opt, tv, tn>>]_vars

\* A five-fold run that failed in the training of a partition.
Wit_C11 ==
    /\ inp.kind = "run" /\ orch.ns.do_kfold /\ orch.loaded
    /\ orch.pc = "failed" /\ orch.err = "TypeError"
    /\ orch.stages[Len(orch.stages)] = <<orch.partition, "train">>

\* C14: whenever an optimizer step is about to be taken in a trial of tune_L1,
\* the optimizer holds no moment estimates, or the ones it holds were
\* accumulated on the weights of the latest reset.
CE_C14 ==
    (inp.kind = "tune_L1" /\ tv.pc = "train") =>
        (opt.fresh \/ opt.m_gen = model.gen)

\* ------------------------------------------ claims about the call log
\* The positions of the log that hold an entry of kind e.
LogIdx(e) == {k \in 1..Len(tv.log) : tv.log[k].ev = e}

\* C15: in a train_val call with a scheduler, every optimizer step is
\* directly preceded by one scheduler step and every scheduler step is
\* directly followed by the optimizer step of its batch (so there is exactly
\* one per training batch, before the optimizer step, and none in validation);
\* the value passed is epoch + i/num_iter for batch i of that epoch; and the
\* values passed increase strictly.  Without a scheduler there is no step.
Thm_C15 ==
    inp.kind = "train_val" =>
      /\ ~tv.scheduler => LogIdx("scheduler.step") = {}
      /\ tv.scheduler =>
           /\ \A k \in LogIdx("optimizer.step") :
                k > 1 /\ tv.log[k - 1].ev = "scheduler.step"
           /\ \A k \in LogIdx("scheduler.step") :
                /\ k < Len(tv.log) /\ tv.log[k + 1].ev = "optimizer.step"
                /\ tv.log[k].epoch = tv.log[k + 1].epoch
                /\ tv.log[k].i = tv.log[k + 1].i
                /\ tv.log[k].n = inp.dl.ntrain
           /\ \A j, k \in LogIdx("scheduler.step") :
                j < k => tv.log[j].epoch * tv.log[j].n + tv.log[j].i
                            < tv.log[k].epoch * tv.log[k].n + tv.log[k].i

\* Two epochs of two batches each with a scheduler: four steps.
Wit_C15 ==
    /\ inp.kind = "train_val" /\ tv.scheduler /\ tv.pc = "returned"
    /\ inp.dl.ntrain = 2 /\ Len(tv.valid_losses) = 2
    /\ Cardinality(LogIdx("scheduler.step")) = 4

\* C16: in a train_val call the monitor is updated once for every executed
\* epoch, directly after that epoch's validation pass and with its loss; once
\* the monitor is terminal the call is past its loop and nothing but the save
\* follows the terminal update; and the call returns one training and one
\* validation loss per executed epoch, with the best weights stored at
\* output_path when one is given.
Thm_C16 ==
    (inp.kind = "train_val" /\ tv.pc \notin {"idle", "raised"}) =>
      /\ \A k \in LogIdx("early_stopping") :
           /\ k > 1 /\ tv.log[k - 1].ev = "valid"
           /\ tv.log[k - 1].epoch = tv.log[k].epoch
           /\ tv.log[k].val = tv.log[k - 1].val
           /\ tv.log[k].val = tv.valid_losses[tv.log[k].epoch + 1]
      /\ \A k \in LogIdx("valid") :
           IF k = Len(tv.log) THEN tv.pc = "estop"
                              ELSE tv.log[k + 1].ev = "early_stopping"
      /\ \A e \in 0..(Len(tv.valid_losses) - 1) :
           Cardinality({k \in LogIdx("early_stopping") : tv.log[k].epoch = e})
             = IF tv.pc = "estop" /\ e = Len(tv.valid_losses) - 1 THEN 0 ELSE 1
      /\ es.early_stop =>
           /\ tv.pc \in {"exit", "returned"}
           /\ \E k \in LogIdx("early_stopping") :
                \A j \in (k + 1)..Len(tv.log) : tv.log[j].ev = "torch.save"
      /\ tv.pc = "returned" =>
           /\ Len(tv.train_losses) = Cardinality(LogIdx("early_stopping"))
           /\ Len(tv.valid_losses) = Cardinality(LogIdx("early_stopping"))
           /\ tv.output_path.given =>
                \E f \in disk : f.path = tv.output_path /\ f.content = tv.best_model_wts

\* A call with an output_path that the monitor stopped before its last epoch
\* and that stored weights other than the live ones.
Wit_C16 ==
    /\ inp.kind = "train_val" /\ tv.pc = "returned" /\ es.early_stop
    /\ Len(tv.valid_losses) < tv.nepochs
    /\ tv.output_path.given
    /\ \E f \in disk : f.path = tv.output_path /\ f.content # model.w

\* C17: within a train_val call the best checkpoint changes only in a
\* validation pass whose loss is below every validation loss before it, and
\* then to the weights of that pass (so no training batch changes it); a file
\* is written only on the way out of the loop, to output_path; a call that has
\* returned has saved exactly once if an output_path was given, and a call
\* without one never saves and leaves no file.
Thm_C17 ==
    /\ [][ (inp.kind = "train_val" /\ tv.pc \notin {"idle", "raised"}
              /\ tv'.best_model_wts # tv.best_model_wts) =>
             /\ tv.pc = "valid" /\ tv'.pc = "estop"
             /\ \A k \in 1..Len(tv.valid_losses) :
                    tv'.loss_valid_epoch < tv.valid_losses[k]
             /\ tv'.best_model_wts = model.w ]_vars
    /\ [][ (inp.kind = "train_val" /\ disk' # disk) =>
             /\ tv.pc = "exit" /\ tv'.pc = "returned" /\ tv.output_path.given
             /\ disk' = WriteFile(disk, tv.output_path, tv.best_model_wts) ]_vars
    /\ [](inp.kind = "train_val" =>
             /\ Cardinality(LogIdx("torch.save"))
                  = (IF tv.pc = "returned" /\ tv.output_path.given THEN 1 ELSE 0)
             /\ ~inp.args.output_path.given => disk = {})

\* A saved checkpoint that was taken in an epoch before the last one: later
\* optimizer steps moved the live weights away from it.
Wit_C17 ==
    /\ inp.kind = "train_val" /\ tv.pc = "returned" /\ tv.output_path.given
    /\ Len(tv.valid_losses) >= 3
    /\ tv.best_val_loss = tv.valid_losses[2]
    /\ tv.best_val_loss < tv.valid_losses[1]
    /\ tv.best_model_wts # model.w
    /\ \E f \in disk : f.path = tv.output_path /\ f.content = tv.best_model_wts

\* C18: in every train_val call started by a tuner, as long as the call has
\* not updated its monitor, the monitor has no best loss yet (best = +infinity),
\* its counter is 0 and it is not terminal, whatever the trials before left.
Thm_C18 ==
    (IsTuner /\ tv.pc \notin {"idle", "raised"} /\ LogIdx("early_stopping") = {}) =>
        /\ ~es.has_best
        /\ es.counter = 0
        /\ ~es.early_stop
        /\ es.patience = Patience

\* The second trial of tune_L1 is in its first epoch, after a first trial of
\* two epochs that updated its monitor twice.
Wit_C18 ==
    /\ inp.kind = "tune_L1" /\ Len(tn.trials) = 2 /\ tn.nepochs = 2
    /\ Len(tn.history) = 1 /\ tn.history[1] = 0 /\ inp.crit = "mse"
    /\ tv.pc = "valid" /\ tv.epoch = 0
    /\ ~es.has_best /\ es.counter = 0

\* The argument of the scheduler step at position k of the log, as epoch*n + i.
StepArg(k) == tv.log[k].epoch * tv.log[k].n + tv.log[k].i

\* C19: a run of more than T_0 epochs with the discovery flags off, on data
\* the loader accepts, that has ended has trained with the scheduler of
\* __train: the learning rate was at its maximum at the start of epochs 0 and
\* 10 (and, when run that long, 30 and 70), at no other step, and at no step
\* below eta_min.
CE_C19 ==
    (inp.kind = "run" /\ DiscoveryOff /\ orch.loaded /\ orch.err # "IOError"
        /\ orch.pc \in {"done", "failed"} /\ orch.ns.nepochs > T_0) =>
      /\ \A e \in {CycleStart(k) : k \in 0..3} :
           e < orch.ns.nepochs =>
             \E k \in LogIdx("scheduler.step") :
                /\ tv.log[k].epoch = e /\ tv.log[k].i = 0
                /\ SchedLr(StepArg(k), tv.log[k].n) = LrBest
      /\ \A k \in LogIdx("scheduler.step") :
           /\ SchedLr(StepArg(k), tv.log[k].n) >= EtaMin
           /\ SchedLr(StepArg(k), tv.log[k].n) = LrBest =>
                (tv.log[k].i = 0 /\ tv.log[k].epoch \in {CycleStart(c) : c \in 0..3})

\* C21: in every trial of a tuner the monitor never becomes terminal (its
\* counter stays below the patience), the train_val call of the trial has no
\* output_path and writes nothing, and when it has returned it has run exactly
\* nepochs epochs: nepochs training and nepochs validation passes, and its
\* best_val_loss is the least of the starting value and those nepochs losses.
Thm_C21 ==
    (IsTuner /\ tn.pc = "trial") =>
      /\ ~es.early_stop /\ es.counter < Patience
      /\ tv.pc # "raised"
      /\ ~tv.output_path.given /\ LogIdx("torch.save") = {} /\ disk = {}
      /\ Len(tn.history) = Len(tn.trials) - 1
      /\ tv.pc = "returned" =>
           /\ Len(tv.train_losses) = tn.nepochs
           /\ Len(tv.valid_losses) = tn.nepochs
           /\ Cardinality(LogIdx("valid")) = tn.nepochs
           /\ Cardinality(LogIdx("early_stopping")) = tn.nepochs
           /\ \A k \in 1..tn.nepochs : tv.best_val_loss <= tv.valid_losses[k]
           /\ \/ tv.best_val_loss = BestValInit
              \/ \E k \in 1..tn.nepochs : tv.best_val_loss = tv.valid_losses[k]

\* A trial on the largest budget the guard accepts has returned: eight
\* epochs in a row did not improve, one short of what the monitor would need.
Wit_C21 ==
    /\ IsTuner /\ tn.pc = "trial" /\ tv.pc = "returned"
    /\ tn.nepochs = TuneCap - 1
    /\ Len(tv.valid_losses) = TuneCap - 1
    /\ es.counter = TuneCap - 2

====
